---- MODULE Spec2Model ----
(***************************************************************************)
(* Student performance dashboard: the preprocessing / inference pipeline   *)
(* of WebModelHandler (src/web_app.py), the batch aggregation of the web   *)
(* page and of the desktop AnalyticsWindow, the recommendation rules, the   *)
(* form of the desktop PredictionWindow and the status bar of the main     *)
(* window.                                                                 *)
(*                                                                         *)
(* Numbers: a probability or confidence p is held as the integer 100 * p   *)
(* (percent), so 0.7 is 70 and 0.6 is 60.                                  *)
(***************************************************************************)
EXTENDS Integers, Sequences, FiniteSets, TLC

VARIABLES
    model,            \* WebModelHandler.model: None or <<classifier>>
    label_encoders,   \* WebModelHandler.label_encoders: None or <<column -> classes_>>
    feature_names,    \* WebModelHandler.feature_names: None or <<sequence of names>>
    pc,               \* which handler ran last
    uploaded,         \* the table as the last handler read it (CSV file or form)
    df,               \* the handler's DataFrame df as the handler left it
    processed,        \* the table preprocess_data returned to the last handler
    predictions,      \* predicted classes of the last call, in row order
    confidences,      \* confidences of the last call, in row order
    good_performance, \* summary metric
    needs_support,    \* summary metric
    rates,            \* <<good rate, needs-support rate>>, each <<numerator, denominator>>
    high_risk,        \* row indexes of the High-risk tier
    medium_risk,      \* row indexes of the Medium-risk tier
    low_confidence,   \* row indexes of the Low-confidence tier
    risk_factors,     \* the list analyze_risk_factors returned (<<>> when not called)
    error,            \* the exception the last handler met ("" when none)
    failed_at,        \* the step of the handler that raised it ("" when none)
    message,          \* the user-facing message the last handler ended with
    student_data,     \* the mapping given to get_recommendations
    prediction_text,  \* the label save_results wrote ("" when nothing was saved)
    recommendations,  \* the list get_recommendations returned
    form_data,        \* PredictionWindow.form_data: field -> the text in its widget
    status            \* the text of the main window's status bar

vars == <<model, label_encoders, feature_names, pc, uploaded, df, processed, predictions,
          confidences, good_performance, needs_support, rates, high_risk,
          medium_risk, low_confidence, risk_factors, error, failed_at, message,
          student_data, prediction_text, recommendations, form_data, status>>

handlerVars == <<model, label_encoders, feature_names>>
batchVars == <<good_performance, needs_support, rates, high_risk,
               medium_risk, low_confidence, risk_factors>>
recVars == <<student_data, prediction_text, recommendations>>

(***************************************************************************)
(* Bounds of the model.                                                    *)
(***************************************************************************)
\* most rows of a table given to the pipeline
MaxRows == 2
\* most rows of a desktop batch whose rows carry any of the confidence levels
MaxBatch == 2
\* most rows of a desktop batch whose rows all carry the same confidence
MaxUniform == 10

(***************************************************************************)
(* Values.  A cell is an integer or a string.                              *)
(***************************************************************************)
None == <<>>
Some(x) == <<x>>
Range(s) == {s[j] : j \in DOMAIN s}

IntV(n) == [k |-> "int", i |-> n, s |-> ""]
StrV(t) == [k |-> "str", i |-> 0, s |-> t]
Cols(t) == Range(t.cols)

DigitStr == <<"0", "1", "2", "3", "4", "5", "6", "7", "8", "9">>

\* Series.astype(str) on one cell
ToStr(v) == CASE v.k = "str" -> v.s
              [] v.k = "int" -> DigitStr[v.i + 1]
              [] OTHER -> "nan"

(***************************************************************************)
(* The artifacts on disk (stand-ins for the three joblib files).           *)
(***************************************************************************)
\* label_encoders.joblib: column -> LabelEncoder.classes_ (sorted)
Encoders == [sex |-> <<"F", "M">>, famsup |-> <<"no", "yes">>]

\* feature_names.joblib: the training column order
FeatureNames == <<"sex", "studytime", "famsup">>

\* student_performance_model.joblib: a binary classifier over classes <<0, 1>>.
\* table[leaf] is predict_proba's row <<P(class 0), P(class 1)>> in percent;
\* minSamples is the least batch size the estimator accepts.
Classifiers ==
    { [table |-> << <<72, 28>>, <<70, 30>>, <<45, 55>> >>, minSamples |-> 1],
      [table |-> << <<55, 45>>, <<50, 50>>, <<0, 100>> >>, minSamples |-> 0] }

(***************************************************************************)
(* Tables (pandas DataFrame): ordered columns, rows as column -> cell.     *)
(***************************************************************************)
Table(cols, rows) == [cols |-> cols, rows |-> rows]
EmptyTable == Table(<<>>, <<>>)

\* the header order of the CSV files the model reads: any sub-sequence of
\* CsvColumns, with or without the block CsvBlock after it
CsvColumns == <<"famsup", "Confidence", "studytime", "sex">>
CsvBlock == <<"age", "failures", "absences", "schoolsup", "higher">>

CellValues(c) ==
    CASE c = "sex" -> {StrV("F"), StrV("M"), StrV("other")}
      [] c = "studytime" -> {IntV(1), IntV(3), StrV("x")}
      [] c = "famsup" -> {StrV("no"), StrV("yes")}
      [] c = "age" -> {IntV(9)}
      [] c = "failures" -> {IntV(0)}
      [] c = "absences" -> {IntV(6)}
      [] c = "schoolsup" -> {StrV("yes")}
      [] c = "higher" -> {StrV("yes")}
      [] OTHER -> {IntV(1)}

RECURSIVE SubSeqs(_)
SubSeqs(s) ==
    IF s = <<>> THEN {<<>>}
    ELSE LET rest == SubSeqs(Tail(s))
         IN rest \cup {<<Head(s)>> \o r : r \in rest}

Headers == SubSeqs(CsvColumns) \cup {h \o CsvBlock : h \in SubSeqs(CsvColumns)}

RECURSIVE RowsOver(_)
RowsOver(cols) ==
    IF cols = <<>> THEN {<<>>}
    ELSE {(Head(cols) :> v) @@ r : v \in CellValues(Head(cols)), r \in RowsOver(Tail(cols))}

\* the number of rows of such a file
RowCounts == 0..MaxRows

(***************************************************************************)
(* WebModelHandler.preprocess_data                                         *)
(***************************************************************************)
\* a call's outcome: err is the exception raised ("" when it returned)
Raise(e) == [err |-> e, table |-> EmptyTable]
Return(t) == [err |-> "", table |-> t]

\* defect variant of Fallback: every string becomes classes_[0]
FallbackAlways(classes, x) == classes[1]

\* defect variant of Fallback: the unseen string is handed to transform as it is
FallbackMissing(classes, x) == x

\* the lambda of the apply: an unseen string becomes classes_[0]
Fallback(classes, x) == IF x \in Range(classes) THEN x ELSE classes[1]

\* LabelEncoder.transform on one string: its position in classes_, from 0;
\* -1 stands for the ValueError it raises on a string it has not seen
Transform(classes, y) ==
    IF y \in Range(classes)
    THEN (CHOOSE j \in 1..Len(classes) : classes[j] = y) - 1
    ELSE -1

\* one cell of an encoded column: astype(str), the fallback, transform
EncodeCell(classes, v) == Transform(classes, Fallback(classes, ToStr(v)))

\* the encoder loop: every column of the table that has an encoder
EncodeColumns(encs, t) ==
    LET enc == {c \in Cols(t) : c \in DOMAIN encs}
        rows == [j \in DOMAIN t.rows |->
                   [c \in Cols(t) |-> IF c \in enc
                                      THEN IntV(EncodeCell(encs[c], t.rows[j][c]))
                                      ELSE t.rows[j][c]]]
    IN IF \E j \in DOMAIN rows : \E c \in enc : rows[j][c].i = -1
       THEN Raise("ValueError")
       ELSE Return(Table(t.cols, rows))

\* defect variant of AddMissing: the new columns are filled with -1
AddMissingSentinel(feats, t) ==
    LET missing == SelectSeq(feats, LAMBDA f : f \notin Cols(t))
        cols == t.cols \o missing
    IN Table(cols, [j \in DOMAIN t.rows |->
                      [c \in Range(cols) |-> IF c \in Cols(t) THEN t.rows[j][c] ELSE IntV(-1)]])

\* the feature loop: every missing feature becomes a new last column of zeros
AddMissing(feats, t) ==
    LET missing == SelectSeq(feats, LAMBDA f : f \notin Cols(t))
        cols == t.cols \o missing
    IN Table(cols, [j \in DOMAIN t.rows |->
                      [c \in Range(cols) |-> IF c \in Cols(t) THEN t.rows[j][c] ELSE IntV(0)]])

\* defect variant of SelectColumns: the first len(feature_names) columns are
\* taken by position
SelectColumnsByPosition(feats, t) ==
    LET cols == SubSeq(t.cols, 1, Len(feats))
    IN Return(Table(cols, [j \in DOMAIN t.rows |-> [c \in Range(cols) |-> t.rows[j][c]]]))

\* defect variant of SelectColumns: the table is returned without the selection
SelectColumnsKeepAll(feats, t) == Return(t)

\* processed_df[self.feature_names]
SelectColumns(feats, t) ==
    IF \E f \in Range(feats) : f \notin Cols(t)
    THEN Raise("KeyError")
    ELSE Return(Table(feats, [j \in DOMAIN t.rows |-> [c \in Range(feats) |-> t.rows[j][c]]]))

\* encs, feats: the handler's label_encoders and feature_names (None or <<value>>)
preprocess_data(encs, feats, t) ==
    IF encs = None THEN Raise("AttributeError")
    ELSE LET encoded == EncodeColumns(encs[1], t)
         IN IF encoded.err # "" THEN encoded
            ELSE IF feats = None THEN Raise("TypeError")
            ELSE SelectColumns(feats[1], AddMissing(feats[1], encoded.table))

\* defect variant of EncodersAfter: fit_transform in place of transform, so
\* classes_ keeps only the categories the column holds
EncodersRefit(encs, t) ==
    IF encs = None THEN None
    ELSE Some([c \in DOMAIN encs[1] |->
                 IF c \notin Cols(t) THEN encs[1][c]
                 ELSE LET kept == SelectSeq(encs[1][c],
                                    LAMBDA x : \E j \in DOMAIN t.rows : ToStr(t.rows[j][c]) = x)
                      IN IF kept = <<>> THEN encs[1][c] ELSE kept])

\* self.label_encoders after preprocess_data(t): the loop reads classes_ and
\* calls transform, and assigns no attribute of self
EncodersAfter(encs, t) == encs

\* defect variant of FeatureNamesAfter: the input's columns are remembered
FeatureNamesFromInput(feats, t) == Some(t.cols)

\* self.feature_names after preprocess_data(t): read, never assigned
FeatureNamesAfter(feats, t) == feats

\* defect variant of InputAfter: the encoder loop writes into df itself
InputEncodedInPlace(encs, t) ==
    IF encs = None THEN t
    ELSE LET encoded == EncodeColumns(encs[1], t)
         IN IF encoded.err # "" THEN t ELSE encoded.table

\* the caller's df after preprocess_data(df): the loops write to
\* processed_df = df.copy(), never to df
InputAfter(encs, t) == t

(***************************************************************************)
(* The classifier (scikit-learn estimator loaded from the artifact).       *)
(***************************************************************************)
\* one row of a table as the vector of its cells in column order
Vector(t, j) == [c \in DOMAIN t.cols |-> t.rows[j][t.cols[c]]]

RECURSIVE SumCells(_)
SumCells(vec) == IF vec = <<>> THEN 0 ELSE Head(vec).i + SumCells(Tail(vec))

\* the leaf a feature vector falls into
Leaf(m, vec) == (SumCells(vec) % Len(m.table)) + 1

\* the estimator's input validation: too few rows or a non-numeric cell
Rejects(m, t) ==
    \/ Len(t.rows) < m.minSamples
    \/ \E j \in DOMAIN t.rows : \E c \in Cols(t) : t.rows[j][c].k # "int"

\* defect variant of MaxOf: the probability of the last class
ProbaOfLastClass(p) == p[Len(p)]

\* max(prediction_proba) and np.max(prediction_probas, axis=1) on one row
MaxOf(p) == CHOOSE x \in Range(p) : \A y \in Range(p) : y <= x

\* numpy argmax: the first position of the maximum, from 0
ArgMax(p) == (CHOOSE j \in DOMAIN p : /\ \A l \in DOMAIN p : p[l] <= p[j]
                                      /\ \A l \in 1..(j - 1) : p[l] < p[j]) - 1

\* model.predict_proba(X): one probability row per input row
ModelPredictProba(m, t) == [j \in DOMAIN t.rows |-> m.table[Leaf(m, Vector(t, j))]]

\* model.predict(X): classes_[argmax] per row, with classes_ = <<0, 1>>
ModelPredict(m, t) == [j \in DOMAIN t.rows |-> ArgMax(ModelPredictProba(m, t)[j])]

(***************************************************************************)
(* WebModelHandler.predict_single / predict_batch                          *)
(***************************************************************************)
\* a call's outcome: err the exception and at the step that raised it ("" when
\* the call returned), processed the local processed_data
Failed(e, step, pre) == [err |-> e, at |-> step, processed |-> pre,
                         predictions |-> <<>>, confidences |-> <<>>]
Predicted(pre, ps, cs) == [err |-> "", at |-> "", processed |-> pre,
                           predictions |-> ps, confidences |-> cs]

\* returns (prediction, confidence) of the first row: here one-element sequences
predict_single(m, encs, feats, t) ==
    LET pre == preprocess_data(encs, feats, t)
    IN IF pre.err # "" THEN Failed(pre.err, "preprocess_data", EmptyTable)
       ELSE IF Rejects(m, pre.table) THEN Failed("ValueError", "predict", pre.table)
       ELSE IF Len(pre.table.rows) = 0 THEN Failed("IndexError", "predict", pre.table)
       ELSE Predicted(pre.table,
                      <<ModelPredict(m, pre.table)[1]>>,
                      <<MaxOf(ModelPredictProba(m, pre.table)[1])>>)

\* defect variant of predict_batch: the [0] of predict_single kept, so every row
\* carries the first row's result
predict_batch_first_row(m, encs, feats, t) ==
    LET pre == preprocess_data(encs, feats, t)
    IN IF pre.err # "" THEN Failed(pre.err, "preprocess_data", EmptyTable)
       ELSE IF Rejects(m, pre.table) THEN Failed("ValueError", "predict", pre.table)
       ELSE Predicted(pre.table,
                      [j \in DOMAIN pre.table.rows |-> ModelPredict(m, pre.table)[1]],
                      [j \in DOMAIN pre.table.rows |-> MaxOf(ModelPredictProba(m, pre.table)[1])])

\* returns (predictions, confidences), one entry per row
predict_batch(m, encs, feats, t) ==
    LET pre == preprocess_data(encs, feats, t)
    IN IF pre.err # "" THEN Failed(pre.err, "preprocess_data", EmptyTable)
       ELSE IF Rejects(m, pre.table) THEN Failed("ValueError", "predict", pre.table)
       ELSE Predicted(pre.table,
                      ModelPredict(m, pre.table),
                      [j \in DOMAIN pre.table.rows |-> MaxOf(ModelPredictProba(m, pre.table)[j])])

(***************************************************************************)
(* get_recommendations (web_app.py; PredictionWindow holds a copy)         *)
(***************************************************************************)
RecStudy == "Increase weekly study time to improve academic performance"
RecTutoring == "Consider additional tutoring to address past academic challenges"
RecAttendance == "Improve attendance to better engage with course material"
RecSchoolSup == "Consider enrolling in school support programs"
RecFamily == "Encourage family involvement in academic activities"
RecContinue == "Continue current study habits and maintain good attendance"
RecLeadership == "Consider taking on leadership roles or advanced courses"
RecHigher == "Start preparing for higher education applications"
RecBalance == "Maintain a healthy balance between academics and social activities"
RecFallback == "Continue monitoring academic progress regularly"

\* dict.get(key, default)
Get(d, key, default) == IF key \in DOMAIN d THEN d[key] ELSE default

\* `if cond: recommendations.append(rec)`
AppendIf(recs, cond, rec) == IF cond THEN Append(recs, rec) ELSE recs

\* defect variant of PoorBranch: an if / elif chain, the first rule that holds wins
PoorBranchElif(d) ==
    IF Get(d, "studytime", IntV(0)).i < 3 THEN <<RecStudy>>
    ELSE IF Get(d, "failures", IntV(0)).i > 0 THEN <<RecTutoring>>
    ELSE IF Get(d, "absences", IntV(0)).i > 10 THEN <<RecAttendance>>
    ELSE IF Get(d, "schoolsup", StrV("")).s = "no" THEN <<RecSchoolSup>>
    ELSE IF Get(d, "famsup", StrV("")).s = "no" THEN <<RecFamily>>
    ELSE <<>>

\* the branch of prediction == 0: five independent ifs
PoorBranch(d) ==
    LET r1 == AppendIf(<<>>, Get(d, "studytime", IntV(0)).i < 3, RecStudy)
        r2 == AppendIf(r1, Get(d, "failures", IntV(0)).i > 0, RecTutoring)
        r3 == AppendIf(r2, Get(d, "absences", IntV(0)).i > 10, RecAttendance)
        r4 == AppendIf(r3, Get(d, "schoolsup", StrV("")).s = "no", RecSchoolSup)
    IN AppendIf(r4, Get(d, "famsup", StrV("")).s = "no", RecFamily)

\* defect variant of GoodBranch: the higher-education entry appended after
\* the three fixed ones
GoodBranchHigherLast(d) ==
    AppendIf(<<RecContinue, RecLeadership, RecBalance>>,
             Get(d, "higher", StrV("")).s = "yes", RecHigher)

\* the else branch
GoodBranch(d) ==
    LET r2 == <<RecContinue, RecLeadership>>
        r3 == AppendIf(r2, Get(d, "higher", StrV("")).s = "yes", RecHigher)
    IN Append(r3, RecBalance)

get_recommendations(prediction, d) ==
    LET recs == IF prediction = 0 THEN PoorBranch(d) ELSE GoodBranch(d)
    IN IF recs = <<>> THEN <<RecFallback>> ELSE recs

\* defect variant of PredictionWindow_get_recommendations: the desktop copy
\* tests absences >= 10
PredictionWindow_get_recommendations_from10(prediction, d) ==
    LET r1 == AppendIf(<<>>, Get(d, "studytime", IntV(0)).i < 3, RecStudy)
        r2 == AppendIf(r1, Get(d, "failures", IntV(0)).i > 0, RecTutoring)
        r3 == AppendIf(r2, Get(d, "absences", IntV(0)).i >= 10, RecAttendance)
        r4 == AppendIf(r3, Get(d, "schoolsup", StrV("")).s = "no", RecSchoolSup)
        r5 == AppendIf(r4, Get(d, "famsup", StrV("")).s = "no", RecFamily)
        recs == IF prediction = 0 THEN r5 ELSE GoodBranch(d)
    IN IF recs = <<>> THEN <<RecFallback>> ELSE recs

\* PredictionWindow.get_recommendations, the desktop window's own copy
PredictionWindow_get_recommendations(prediction, d) ==
    LET r1 == AppendIf(<<>>, Get(d, "studytime", IntV(0)).i < 3, RecStudy)
        r2 == AppendIf(r1, Get(d, "failures", IntV(0)).i > 0, RecTutoring)
        r3 == AppendIf(r2, Get(d, "absences", IntV(0)).i > 10, RecAttendance)
        r4 == AppendIf(r3, Get(d, "schoolsup", StrV("")).s = "no", RecSchoolSup)
        r5 == AppendIf(r4, Get(d, "famsup", StrV("")).s = "no", RecFamily)
        g2 == <<RecContinue, RecLeadership>>
        g3 == AppendIf(g2, Get(d, "higher", StrV("")).s = "yes", RecHigher)
        g4 == Append(g3, RecBalance)
        recs == IF prediction = 0 THEN r5 ELSE g4
    IN IF recs = <<>> THEN <<RecFallback>> ELSE recs

(***************************************************************************)
(* Batch aggregation: the expressions of show_batch_analysis, repeated in  *)
(* generate_analysis_report and in AnalyticsWindow.                        *)
(***************************************************************************)
\* confidence > 0.7 bounds the High-risk tier, confidence < 0.6 the Low-confidence tier
HighRiskAbove == 70
LowConfidenceBelow == 60

\* defect variant of SumSeq: the rows of class 0 are counted
CountZeros(q) == Cardinality({j \in DOMAIN q : q[j] = 0})

RECURSIVE SumSeq(_)
\* the built-in sum over the predictions
SumSeq(q) == IF q = <<>> THEN 0 ELSE Head(q) + SumSeq(Tail(q))

\* defect variant of PerformanceLabel: the two labels the other way round
PerformanceLabelSwapped(p) == IF p = 1 THEN "Needs Support"
                              ELSE IF p = 0 THEN "Good Performance" ELSE "nan"

\* Series.map({1: 'Good Performance', 0: 'Needs Support'})
PerformanceLabel(p) == IF p = 1 THEN "Good Performance"
                       ELSE IF p = 0 THEN "Needs Support" ELSE "nan"

\* df[name] = values: replaces the column, or appends it
AssignColumn(t, name, values) ==
    LET cols == IF name \in Cols(t) THEN t.cols ELSE Append(t.cols, name)
    IN Table(cols, [j \in DOMAIN t.rows |->
                      [c \in Range(cols) |-> IF c = name THEN values[j] ELSE t.rows[j][c]]])

\* the three columns added to the batch table after predict_batch
WithPredictions(t, ps, cs) ==
    LET t1 == AssignColumn(t, "Predicted_Performance", [j \in DOMAIN ps |-> IntV(ps[j])])
        t2 == AssignColumn(t1, "Confidence", [j \in DOMAIN cs |-> IntV(cs[j])])
    IN AssignColumn(t2, "Performance_Label",
                    [j \in DOMAIN ps |-> StrV(PerformanceLabel(t2.rows[j]["Predicted_Performance"].i))])

\* one row's tests: (Predicted_Performance == 0) & (Confidence > 0.7),
\* (Predicted_Performance == 0) & (Confidence <= 0.7), Confidence < 0.6
\* defect variant of HighRiskRow: the 0.8 of the high-confidence insight
HighRiskRowAbove80(p, c) == p = 0 /\ c > 80
\* defect variant of HighRiskRow: >= in place of >
HighRiskRowAtLeast(p, c) == p = 0 /\ c >= HighRiskAbove
HighRiskRow(p, c) == p = 0 /\ c > HighRiskAbove
MediumRiskRow(p, c) == p = 0 /\ c <= HighRiskAbove
\* defect variant of LowConfidenceRow: the 0.8 of the high-confidence insight
LowConfidenceRowBelow80(c) == c < 80
LowConfidenceRow(c) == c < LowConfidenceBelow

RowClass(t, j) == t.rows[j]["Predicted_Performance"].i
RowConfidence(t, j) == t.rows[j]["Confidence"].i

\* the three row subsets, as sets of row positions
HighRisk(t) == {j \in DOMAIN t.rows : HighRiskRow(RowClass(t, j), RowConfidence(t, j))}
MediumRisk(t) == {j \in DOMAIN t.rows : MediumRiskRow(RowClass(t, j), RowConfidence(t, j))}
LowConfidence(t) == {j \in DOMAIN t.rows : LowConfidenceRow(RowConfidence(t, j))}

(***************************************************************************)
(* AnalyticsWindow.analyze_risk_factors                                    *)
(***************************************************************************)
\* the shares of the High-risk total a factor's count must exceed, in percent
StudyShare == 60
AbsenceShare == 40
FailureShare == 50
FamilyShare == 40
SchoolShare == 60

FactorStudy == "high-risk students have low study time"
FactorAbsences == "high-risk students have high absence rates (>10)"
FactorFailures == "high-risk students have previous academic failures"
FactorFamily == "high-risk students lack family educational support"
FactorSchool == "high-risk students don't receive extra school support"
FactorNone == "No clear common risk factors identified among high-risk students"
FactorNoHighRisk == "No high-risk students identified"

\* one entry of the list: f"{count}/{total} {text}", or a text alone (0/0)
Factor(text, count, total) == [text |-> text, count |-> count, total |-> total]

\* defect variant of Exceeds: >= in place of >
ReachesShare(count, total, share) == count * 100 >= total * share

\* count > total * 0.6 (0.4, 0.5): the float product is exact wherever it is whole
Exceeds(count, total, share) == count * 100 > total * share

\* the rows of self.df the High-risk test selects, in order
HighRiskStudents(t) ==
    SelectSeq(t.rows, LAMBDA r : HighRiskRow(r["Predicted_Performance"].i, r["Confidence"].i))

\* defect variant of WithPlaceholder: the list is returned as collected
WithoutPlaceholder(total, factors) == factors

\* the early return on an empty set, and the entry appended to an empty list
WithPlaceholder(total, factors) ==
    IF total = 0 THEN <<Factor(FactorNoHighRisk, 0, 0)>>
    ELSE IF factors = <<>> THEN <<Factor(FactorNone, 0, 0)>>
    ELSE factors

analyze_risk_factors(cols, rows) ==
    LET total == Len(rows)
        study == Cardinality({j \in DOMAIN rows : rows[j]["studytime"].i <= 2})
        absent == Cardinality({j \in DOMAIN rows : rows[j]["absences"].i > 10})
        failed == Cardinality({j \in DOMAIN rows : rows[j]["failures"].i > 0})
        family == Cardinality({j \in DOMAIN rows : rows[j]["famsup"].s = "no"})
        school == Cardinality({j \in DOMAIN rows : rows[j]["schoolsup"].s = "no"})
        f1 == AppendIf(<<>>, Exceeds(study, total, StudyShare),
                       Factor(FactorStudy, study, total))
        f2 == AppendIf(f1, "absences" \in cols /\ Exceeds(absent, total, AbsenceShare),
                       Factor(FactorAbsences, absent, total))
        f3 == AppendIf(f2, "failures" \in cols /\ Exceeds(failed, total, FailureShare),
                       Factor(FactorFailures, failed, total))
        f4 == AppendIf(f3, "famsup" \in cols /\ Exceeds(family, total, FamilyShare),
                       Factor(FactorFamily, family, total))
        f5 == AppendIf(f4, "schoolsup" \in cols /\ Exceeds(school, total, SchoolShare),
                       Factor(FactorSchool, school, total))
    IN WithPlaceholder(total, f5)

\* count / total as the quotient handed to the formatter; <<>> when not computed
NoRates == <<>>
Rate(count, total) == <<count, total>>

(***************************************************************************)
(* The web application (src/web_app.py)                                    *)
(***************************************************************************)
NoBatch == /\ good_performance' = 0 /\ needs_support' = 0 /\ rates' = NoRates
           /\ high_risk' = {} /\ medium_risk' = {} /\ low_confidence' = {}
           /\ risk_factors' = <<>>
NoCall == /\ uploaded' = EmptyTable /\ df' = EmptyTable /\ processed' = EmptyTable
          /\ predictions' = <<>> /\ confidences' = <<>>
NoRec == student_data' = <<>> /\ prediction_text' = "" /\ recommendations' = <<>>
\* the web page has neither the desktop form nor the status bar
NoDesktop == UNCHANGED <<form_data, status>>
Caught(e, step, msg) == error' = e /\ failed_at' = step /\ message' = msg
Finished(msg) == error' = "" /\ failed_at' = "" /\ message' = msg

Init ==
    /\ model = None /\ label_encoders = None /\ feature_names = None
    /\ pc = "init"
    /\ uploaded = EmptyTable /\ df = EmptyTable /\ processed = EmptyTable
    /\ predictions = <<>> /\ confidences = <<>>
    /\ good_performance = 0 /\ needs_support = 0 /\ rates = NoRates
    /\ high_risk = {} /\ medium_risk = {} /\ low_confidence = {}
    /\ risk_factors = <<>>
    /\ error = "" /\ failed_at = "" /\ message = ""
    /\ student_data = <<>> /\ prediction_text = "" /\ recommendations = <<>>
    /\ form_data = <<>> /\ status = ""

\* WebModelHandler(): the three loads in one try; failAt is the load that raises
\* (0: none), exists is os.path.exists of the model file
LoadModels ==
    /\ pc = "init"
    /\ \E exists \in BOOLEAN, failAt \in 0..3, m \in Classifiers :
         /\ model' = IF exists /\ failAt # 1 THEN Some(m) ELSE None
         /\ label_encoders' = IF exists /\ failAt \notin {1, 2} THEN Some(Encoders) ELSE None
         /\ feature_names' = IF exists /\ failAt = 0 THEN Some(FeatureNames) ELSE None
         /\ IF exists /\ failAt # 0
            THEN Caught("Exception", "load_models", "Error loading models")
            ELSE Finished("")
    /\ pc' = "main"
    /\ NoCall /\ NoBatch /\ NoRec /\ NoDesktop

\* main(): without a model every page ends at the guard
MainNoModel ==
    /\ pc = "main" /\ model = None
    /\ pc' = "nomodel"
    /\ Finished("Models not found")
    /\ NoCall /\ NoBatch /\ NoRec /\ NoDesktop
    /\ UNCHANGED handlerVars

\* the fields of the prediction form, in the order of the student_data dict
FormColumns == <<"sex", "age", "studytime", "failures", "schoolsup", "famsup",
                 "higher", "absences">>
FormValues(c) ==
    CASE c = "sex" -> {StrV("F"), StrV("M")}
      [] c = "studytime" -> {IntV(1), IntV(3)}
      [] OTHER -> CellValues(c)
RECURSIVE FormRows(_)
FormRows(cols) ==
    IF cols = <<>> THEN {<<>>}
    ELSE {(Head(cols) :> v) @@ r : v \in FormValues(Head(cols)), r \in FormRows(Tail(cols))}

\* show_individual_prediction, the form submitted
PredictSingle ==
    /\ pc = "main" /\ model # None
    /\ \E data \in FormRows(FormColumns) :
       \E r \in {predict_single(model[1], label_encoders, feature_names,
                                Table(FormColumns, <<data>>))} :
            /\ student_data' = data
            /\ prediction_text' = ""
            /\ uploaded' = Table(FormColumns, <<data>>)
            /\ df' = InputAfter(label_encoders, Table(FormColumns, <<data>>))
            /\ processed' = r.processed
            /\ predictions' = r.predictions
            /\ confidences' = r.confidences
            /\ IF r.err = ""
               THEN /\ recommendations' = get_recommendations(r.predictions[1], data)
                    /\ Finished("Prediction Results")
               ELSE /\ recommendations' = <<>>
                    /\ Caught(r.err, r.at, "Prediction failed")
            /\ label_encoders' = EncodersAfter(label_encoders, Table(FormColumns, <<data>>))
            /\ feature_names' = FeatureNamesAfter(feature_names, Table(FormColumns, <<data>>))
    /\ pc' = "single"
    /\ NoBatch /\ NoDesktop
    /\ UNCHANGED model

\* the columns of the Detailed Results table that every batch must have
DisplayCols == {"age", "sex", "studytime", "failures", "absences"}

\* show_batch_analysis with a file given; readable is whether pd.read_csv returns,
\* t the table it returns
ShowBatchAnalysis ==
    /\ pc = "main" /\ model # None
    /\ pc' = "batch"
    /\ NoRec /\ NoDesktop
    /\ UNCHANGED model
    /\ \E readable \in BOOLEAN :
       \E n \in (IF readable THEN RowCounts ELSE {0}) :
       \E cols \in (IF readable THEN Headers ELSE {<<>>}) :
       \E rows \in [1..n -> RowsOver(cols)] :
       \E t \in {Table(cols, rows)} :
       \E r \in {predict_batch(model[1], label_encoders, feature_names, t)} :
       \E joined \in {IF r.err = ""
                        THEN WithPredictions(InputAfter(label_encoders, t),
                                             r.predictions, r.confidences)
                        ELSE InputAfter(label_encoders, t)} :
         LET good == SumSeq(r.predictions)
             total == Len(r.predictions)
         IN /\ label_encoders' = IF readable THEN EncodersAfter(label_encoders, t)
                                 ELSE label_encoders
            /\ feature_names' = IF readable THEN FeatureNamesAfter(feature_names, t)
                                ELSE feature_names
            /\ IF ~readable
               THEN /\ Caught("IOError", "read_csv", "Error processing file")
                    /\ NoCall /\ NoBatch
               ELSE IF r.err # ""
               THEN /\ Caught(r.err, r.at, "Error processing file")
                    /\ uploaded' = t /\ df' = joined /\ processed' = r.processed
                    /\ predictions' = <<>> /\ confidences' = <<>>
                    /\ NoBatch
               ELSE /\ uploaded' = t /\ df' = joined /\ processed' = r.processed
                    /\ predictions' = r.predictions /\ confidences' = r.confidences
                    /\ good_performance' = good
                    /\ needs_support' = total - good
                    /\ risk_factors' = <<>>
                    /\ IF total = 0
                       THEN /\ Caught("ZeroDivisionError", "metrics", "Error processing file")
                            /\ rates' = NoRates
                            /\ high_risk' = {} /\ medium_risk' = {} /\ low_confidence' = {}
                       ELSE /\ rates' = <<Rate(good, total), Rate(total - good, total)>>
                            /\ high_risk' = HighRisk(joined)
                            /\ medium_risk' = MediumRisk(joined)
                            /\ low_confidence' = LowConfidence(joined)
                            /\ IF DisplayCols \subseteq Cols(joined)
                               THEN Finished("Loaded student records")
                               ELSE Caught("KeyError", "display", "Error processing file")

\* the script run ends; the next interaction runs main() again with the cached handler
Rerun ==
    /\ pc \in {"nomodel", "single", "batch"}
    /\ pc' = "main"
    /\ Finished("")
    /\ NoCall /\ NoBatch /\ NoRec /\ NoDesktop
    /\ UNCHANGED handlerVars

Next == LoadModels \/ MainNoModel \/ PredictSingle \/ ShowBatchAnalysis \/ Rerun

Spec == Init /\ [][Next]_vars

(***************************************************************************)
(* The desktop AnalyticsWindow (src/gui/analytics_window.py), opened by    *)
(* StudentPerformanceApp.upload_csv_file / use_sample_data.  Its           *)
(* model_handler is built outside these sources: what its predict_batch    *)
(* returns is an input here.                                               *)
(***************************************************************************)
\* the header of a desktop batch file: with or without the age column
BatchColumns == <<"age", "studytime", "failures", "absences", "schoolsup", "famsup">>
BatchHeaders == {BatchColumns, Tail(BatchColumns)}
BatchCell(c) == CASE c = "studytime" -> IntV(1)
                  [] c = "famsup" -> StrV("no")
                  [] OTHER -> CHOOSE v \in CellValues(c) : TRUE
BatchTable(cols, n) == Table(cols, [j \in 1..n |-> [c \in Range(cols) |-> BatchCell(c)]])

\* what predict_batch hands back: one <<class, confidence>> per row
Results == {0, 1} \X {55, 60, 70, 72}
BatchResults ==
    UNION {[1..n -> Results] : n \in 0..MaxBatch}
      \cup UNION {[1..n -> {0, 1} \X {72}] : n \in 0..MaxUniform}

InitBatch ==
    /\ model = None /\ label_encoders = None /\ feature_names = None
    /\ pc = "window"
    /\ uploaded = EmptyTable /\ df = EmptyTable /\ processed = EmptyTable
    /\ predictions = <<>> /\ confidences = <<>>
    /\ good_performance = 0 /\ needs_support = 0 /\ rates = NoRates
    /\ high_risk = {} /\ medium_risk = {} /\ low_confidence = {}
    /\ risk_factors = <<>>
    /\ error = "" /\ failed_at = "" /\ message = ""
    /\ student_data = <<>> /\ prediction_text = "" /\ recommendations = <<>>
    /\ form_data = <<>> /\ status = "Processing CSV file..."

KeepBatch == UNCHANGED <<good_performance, needs_support, rates, high_risk, medium_risk,
                         low_confidence, risk_factors>>
KeepData == UNCHANGED <<uploaded, df, processed, predictions, confidences>>
Fixed == UNCHANGED <<model, label_encoders, feature_names, student_data, prediction_text,
                     recommendations, form_data>>

\* defect variant of InitRaises: upload_csv_file without its try / except
InitEscapes(e, step) ==
    /\ pc' = "crashed"
    /\ Caught(e, step, "")
    /\ UNCHANGED status

\* an exception leaving AnalyticsWindow.__init__: caught by the main window's handler
InitRaises(e, step) ==
    /\ pc' = "failed"
    /\ Caught(e, step, "Failed to process CSV file")
    /\ status' = "Error occurred"

\* load_and_process_data; step is where its try block ends
LoadAndProcessData ==
    /\ pc = "window"
    /\ Fixed /\ UNCHANGED status
    /\ NoBatch
    /\ uploaded' = EmptyTable /\ processed' = EmptyTable
    /\ \E step \in {"read_csv", "predict_batch", "done"} :
       \E cols \in BatchHeaders, rs \in BatchResults :
            CASE step = "read_csv" ->
                   /\ df' = EmptyTable /\ predictions' = <<>> /\ confidences' = <<>>
                   /\ Caught("IOError", "read_csv", "Failed to process data")
                   /\ pc' = "destroyed"
              [] step = "predict_batch" ->
                   /\ df' = BatchTable(cols, Len(rs))
                   /\ predictions' = <<>> /\ confidences' = <<>>
                   /\ Caught("Exception", "predict_batch", "Failed to process data")
                   /\ pc' = "destroyed"
              [] OTHER ->
                   /\ predictions' = [j \in DOMAIN rs |-> rs[j][1]]
                   /\ confidences' = [j \in DOMAIN rs |-> rs[j][2]]
                   /\ df' = WithPredictions(BatchTable(cols, Len(rs)),
                                            [j \in DOMAIN rs |-> rs[j][1]],
                                            [j \in DOMAIN rs |-> rs[j][2]])
                   /\ Finished("")
                   /\ pc' = "loaded"

\* create_widgets up to create_header: the two quick-stat cards
CreateHeader ==
    /\ pc \in {"loaded", "destroyed"}
    /\ Fixed /\ KeepData
    /\ high_risk' = {} /\ medium_risk' = {} /\ low_confidence' = {}
    /\ risk_factors' = <<>>
    /\ IF pc = "destroyed"
       THEN /\ InitRaises("TclError", "create_widgets")
            /\ good_performance' = 0 /\ needs_support' = 0 /\ rates' = NoRates
       ELSE /\ good_performance' = SumSeq(predictions)
            /\ needs_support' = Len(predictions) - SumSeq(predictions)
            /\ IF Len(predictions) = 0
               THEN /\ InitRaises("ZeroDivisionError", "create_header")
                    /\ rates' = NoRates
               ELSE /\ rates' = <<Rate(SumSeq(predictions), Len(predictions)),
                                  Rate(Len(predictions) - SumSeq(predictions), Len(predictions))>>
                    /\ Finished("") /\ UNCHANGED status
                    /\ pc' = "header"

\* the columns whose mean create_summary_section and generate_insights take
MeanCols == {"age", "studytime", "absences"}

\* create_summary_section: the statistics grid
CreateSummarySection ==
    /\ pc = "header"
    /\ Fixed /\ KeepData
    /\ high_risk' = {} /\ medium_risk' = {} /\ low_confidence' = {}
    /\ risk_factors' = <<>>
    /\ good_performance' = SumSeq(predictions)
    /\ needs_support' = Len(df.rows) - SumSeq(predictions)
    /\ IF MeanCols \subseteq Cols(df)
       THEN /\ rates' = <<Rate(SumSeq(predictions), Len(df.rows)),
                          Rate(Len(df.rows) - SumSeq(predictions), Len(df.rows))>>
            /\ Finished("") /\ UNCHANGED status
            /\ pc' = "summary"
       ELSE /\ rates' = NoRates
            /\ InitRaises("KeyError", "create_summary_section")

\* create_insights_section: generate_insights and its labels
CreateInsightsSection ==
    /\ pc = "summary"
    /\ Fixed /\ KeepData /\ KeepBatch
    /\ IF Len(predictions) = 0
       THEN InitRaises("ZeroDivisionError", "generate_insights")
       ELSE IF MeanCols \subseteq Cols(df)
       THEN Finished("") /\ UNCHANGED status /\ pc' = "insights"
       ELSE InitRaises("KeyError", "generate_insights")

\* create_risk_analysis: the three tiers and their shares of the batch
CreateRiskAnalysis ==
    /\ pc = "insights"
    /\ Fixed /\ KeepData
    /\ UNCHANGED <<good_performance, needs_support, rates>>
    /\ high_risk' = HighRisk(df)
    /\ medium_risk' = MediumRisk(df)
    /\ low_confidence' = LowConfidence(df)
    /\ IF Len(df.rows) = 0
       THEN /\ InitRaises("ZeroDivisionError", "create_risk_analysis")
            /\ risk_factors' = <<>>
       ELSE /\ risk_factors' = IF Len(HighRiskStudents(df)) > 0
                               THEN analyze_risk_factors(Cols(df), HighRiskStudents(df))
                               ELSE <<>>
            /\ Finished("") /\ pc' = "risk"
            /\ status' = "Ready"

\* export_full_report with a file chosen: generate_report
GenerateReport ==
    /\ pc = "risk"
    /\ Fixed /\ KeepData /\ UNCHANGED status
    /\ pc' = "report"
    /\ UNCHANGED risk_factors
    /\ good_performance' = SumSeq(predictions)
    /\ needs_support' = Len(predictions) - SumSeq(predictions)
    /\ IF Len(predictions) = 0
       THEN /\ Caught("ZeroDivisionError", "generate_report", "Failed to export report")
            /\ rates' = NoRates
            /\ UNCHANGED <<high_risk, medium_risk, low_confidence>>
       ELSE /\ rates' = <<Rate(SumSeq(predictions), Len(predictions)),
                          Rate(Len(predictions) - SumSeq(predictions), Len(predictions))>>
            /\ IF MeanCols \subseteq Cols(df)
               THEN /\ high_risk' = HighRisk(df)
                    /\ medium_risk' = MediumRisk(df)
                    /\ low_confidence' = LowConfidence(df)
                    /\ Finished("Report exported")
               ELSE /\ UNCHANGED <<high_risk, medium_risk, low_confidence>>
                    /\ Caught("KeyError", "generate_report", "Failed to export report")

NextBatch == \/ LoadAndProcessData
             \/ CreateHeader
             \/ CreateSummarySection
             \/ CreateInsightsSection
             \/ CreateRiskAnalysis
             \/ GenerateReport

SpecBatch == InitBatch /\ [][NextBatch]_vars

(***************************************************************************)
(* create_risk_analysis on batches whose rows differ in the risk factors:  *)
(* the window as create_insights_section left it.                          *)
(***************************************************************************)
\* most rows of such a batch
MaxRisk == 5

\* the header of such a batch: with or without the three optional factor columns
RiskHeaders == {BatchColumns, <<"age", "studytime", "absences">>}

\* a row is <<class, confidence, profile>>: a High-risk row with every factor,
\* a High-risk row with none, and a Medium-risk and a class-1 row with every factor
RiskRowKinds == {<<0, 72, "factors">>, <<0, 72, "clear">>, <<0, 70, "factors">>,
                 <<1, 72, "factors">>}

RiskCell(profile, c) ==
    CASE c = "studytime" -> IF profile = "factors" THEN IntV(2) ELSE IntV(3)
      [] c = "absences" -> IF profile = "factors" THEN IntV(11) ELSE IntV(10)
      [] c = "failures" -> IF profile = "factors" THEN IntV(1) ELSE IntV(0)
      [] c = "famsup" -> IF profile = "factors" THEN StrV("no") ELSE StrV("yes")
      [] c = "schoolsup" -> IF profile = "factors" THEN StrV("no") ELSE StrV("yes")
      [] OTHER -> BatchCell(c)

RiskTable(cols, kinds) ==
    WithPredictions(Table(cols, [j \in DOMAIN kinds |->
                                   [c \in Range(cols) |-> RiskCell(kinds[j][3], c)]]),
                    [j \in DOMAIN kinds |-> kinds[j][1]],
                    [j \in DOMAIN kinds |-> kinds[j][2]])

InitRisk ==
    /\ model = None /\ label_encoders = None /\ feature_names = None
    /\ pc = "insights"
    /\ uploaded = EmptyTable /\ processed = EmptyTable
    /\ \E n \in 1..MaxRisk, cols \in RiskHeaders :
       \E kinds \in [1..n -> RiskRowKinds] :
          /\ df = RiskTable(cols, kinds)
          /\ predictions = [j \in 1..n |-> kinds[j][1]]
          /\ confidences = [j \in 1..n |-> kinds[j][2]]
    /\ good_performance = SumSeq(predictions)
    /\ needs_support = Len(df.rows) - SumSeq(predictions)
    /\ rates = <<Rate(SumSeq(predictions), Len(df.rows)),
                 Rate(Len(df.rows) - SumSeq(predictions), Len(df.rows))>>
    /\ high_risk = {} /\ medium_risk = {} /\ low_confidence = {}
    /\ risk_factors = <<>>
    /\ error = "" /\ failed_at = "" /\ message = ""
    /\ student_data = <<>> /\ prediction_text = "" /\ recommendations = <<>>
    /\ form_data = <<>> /\ status = "Processing CSV file..."

NextRisk == CreateRiskAnalysis

SpecRisk == InitRisk /\ [][NextRisk]_vars

(***************************************************************************)
(* analyze_risk_factors applied to the High-risk rows of any such batch,   *)
(* the empty selection included.                                           *)
(***************************************************************************)
AnalyzeRiskFactors ==
    /\ pc = "insights"
    /\ pc' = "factors"
    /\ risk_factors' = analyze_risk_factors(Cols(df), HighRiskStudents(df))
    /\ high_risk' = HighRisk(df)
    /\ Fixed /\ KeepData
    /\ UNCHANGED <<good_performance, needs_support, rates, medium_risk, low_confidence,
                   error, failed_at, message, status>>

NextFactors == AnalyzeRiskFactors

SpecFactors == InitRisk /\ [][NextFactors]_vars

(***************************************************************************)
(* get_recommendations called on any prediction and any student_data       *)
(***************************************************************************)
\* the keys get_recommendations reads, each absent or with one of its values
RecValues(key) ==
    CASE key = "studytime" -> {IntV(2), IntV(3)}
      [] key = "failures" -> {IntV(0), IntV(1)}
      [] key = "absences" -> {IntV(6), IntV(10), IntV(11)}
      [] OTHER -> {StrV("yes"), StrV("no")}
RecKeys == <<"studytime", "failures", "absences", "schoolsup", "famsup", "higher">>

\* the confidence predict_single returned with the prediction
RecConfidences == {60, 72}

RECURSIVE StudentDicts(_)
StudentDicts(keys) ==
    IF keys = <<>> THEN {<<>>}
    ELSE LET rest == StudentDicts(Tail(keys))
         IN rest \cup {(Head(keys) :> v) @@ r : v \in RecValues(Head(keys)), r \in rest}

InitRec ==
    /\ model = None /\ label_encoders = None /\ feature_names = None
    /\ pc = "rec_call"
    /\ uploaded = EmptyTable /\ df = EmptyTable /\ processed = EmptyTable
    /\ predictions \in {<<0>>, <<1>>} /\ confidences \in {<<c>> : c \in RecConfidences}
    /\ good_performance = 0 /\ needs_support = 0 /\ rates = NoRates
    /\ high_risk = {} /\ medium_risk = {} /\ low_confidence = {}
    /\ risk_factors = <<>>
    /\ error = "" /\ failed_at = "" /\ message = ""
    /\ student_data \in StudentDicts(RecKeys) /\ prediction_text = ""
    /\ recommendations = <<>>
    /\ form_data = <<>> /\ status = "Ready"

GetRecommendations ==
    /\ pc = "rec_call"
    /\ pc' = "rec"
    /\ recommendations' = get_recommendations(predictions[1], student_data)
    /\ UNCHANGED <<model, label_encoders, feature_names, uploaded, df, processed,
                   predictions, confidences, good_performance, needs_support, rates,
                   high_risk, medium_risk, low_confidence, risk_factors, error,
                   failed_at, message, student_data, prediction_text, form_data, status>>

\* "Good Performance" if prediction == 1 else "Needs Support"
PredictionText(prediction) ==
    IF prediction = 1 THEN "Good Performance" ELSE "Needs Support"

\* PredictionWindow.save_results from the results window, with a file chosen
SaveResults ==
    /\ pc = "rec"
    /\ pc' = "saved"
    /\ prediction_text' = PredictionText(predictions[1])
    /\ recommendations' = PredictionWindow_get_recommendations(predictions[1], student_data)
    /\ Finished("Results saved")
    /\ UNCHANGED <<model, label_encoders, feature_names, uploaded, df, processed,
                   predictions, confidences, good_performance, needs_support, rates,
                   high_risk, medium_risk, low_confidence, risk_factors, student_data,
                   form_data, status>>

NextRec == GetRecommendations \/ SaveResults

SpecRec == InitRec /\ [][NextRec]_vars

(***************************************************************************)
(* The applications together: the web page, the desktop analytics window   *)
(* or the desktop results window, whichever runs.                          *)
(***************************************************************************)
InitApp == Init \/ InitBatch \/ InitRec

NextApp == \/ LoadModels
           \/ MainNoModel
           \/ PredictSingle
           \/ ShowBatchAnalysis
           \/ Rerun
           \/ LoadAndProcessData
           \/ CreateHeader
           \/ CreateSummarySection
           \/ CreateInsightsSection
           \/ CreateRiskAnalysis
           \/ GenerateReport
           \/ GetRecommendations
           \/ SaveResults

SpecApp == InitApp /\ [][NextApp]_vars

(***************************************************************************)
(* The desktop prediction window (src/gui/prediction_window.py): the form, *)
(* its buttons and the results window.  model_handler.predict_single is    *)
(* outside the window's code: it raises or returns any class and           *)
(* confidence.                                                             *)
(***************************************************************************)
\* the fields of the form that the model follows, in the order of creation
FormFields == <<"studytime", "failures", "famsup", "higher", "absences">>

\* the fields get_form_data converts with int()
NumericFields == {"age", "Medu", "Fedu", "traveltime", "studytime", "failures", "famrel",
                  "freetime", "goout", "Dalc", "Walc", "health", "absences", "G1", "G2"}

\* create_form_field's default_value of each field, as the widget holds it
FormDefaults == [studytime |-> "2", failures |-> "0", famsup |-> "yes", higher |-> "yes",
                 absences |-> "0"]

\* load_sample_data's sample_data, as str(value)
SampleData == [studytime |-> "2", failures |-> "0", famsup |-> "no", higher |-> "yes",
               absences |-> "6"]

\* what the user can put into a widget: an option of a read-only combobox, or
\* any text typed into a spinbox (in range, or not a number)
FieldTexts(f) ==
    CASE f = "studytime" -> {"2", "x"}
      [] f = "failures" -> {"0", "1"}
      [] f = "absences" -> {"0", "6"}
      [] OTHER -> {"yes", "no"}

\* int(value) if value else 0, and 0 on ValueError
IntOf(text) ==
    IF text = "" THEN 0
    ELSE IF \E n \in 0..9 : DigitStr[n + 1] = text
    THEN CHOOSE n \in 0..9 : DigitStr[n + 1] = text
    ELSE 0

get_form_data(widgets) ==
    [f \in DOMAIN widgets |-> IF f \in NumericFields THEN IntV(IntOf(widgets[f]))
                              ELSE StrV(widgets[f])]

\* Python's `not value` for the values of the data dict
Falsy(v) == IF v.k = "int" THEN v.i = 0 ELSE v.s = ""

\* defect variant of validate_form: only the presence of the key is tested
validate_form_key_present(fields, data) ==
    SelectSeq(fields, LAMBDA f : f \notin DOMAIN data)

\* validate_form: the list missing_fields; the form is accepted when it is empty
validate_form(fields, data) ==
    SelectSeq(fields, LAMBDA f : Falsy(Get(data, f, StrV(""))))

\* PredictionWindow(): create_widgets fills every field with its default
InitForm ==
    /\ model = None /\ label_encoders = None /\ feature_names = None
    /\ pc = "form"
    /\ uploaded = EmptyTable /\ df = EmptyTable /\ processed = EmptyTable
    /\ predictions = <<>> /\ confidences = <<>>
    /\ good_performance = 0 /\ needs_support = 0 /\ rates = NoRates
    /\ high_risk = {} /\ medium_risk = {} /\ low_confidence = {}
    /\ risk_factors = <<>>
    /\ error = "" /\ failed_at = "" /\ message = ""
    /\ student_data = <<>> /\ prediction_text = "" /\ recommendations = <<>>
    /\ form_data = FormDefaults /\ status = "Ready"

\* the positions at which the prediction window waits for the user
FormOpen == {"form", "cleared", "invalid", "prediction_error", "rec", "saved"}

\* what a button of the form leaves alone
KeepResults ==
    UNCHANGED <<model, label_encoders, feature_names, uploaded, df, processed, predictions,
                confidences, good_performance, needs_support, rates, high_risk, medium_risk,
                low_confidence, risk_factors, error, failed_at, message, student_data,
                prediction_text, recommendations, status>>

\* clear_form: every widget emptied
ClearForm ==
    /\ pc \in FormOpen
    /\ form_data' = [f \in DOMAIN form_data |-> ""]
    /\ pc' = "cleared"
    /\ KeepResults

\* load_sample_data: every field of sample_data that the form has
LoadSampleData ==
    /\ pc \in FormOpen
    /\ form_data' = [f \in DOMAIN form_data |->
                        IF f \in DOMAIN SampleData THEN SampleData[f] ELSE form_data[f]]
    /\ pc' = "form"
    /\ KeepResults

\* the user picks an option or types into one widget
EditField ==
    /\ pc \in FormOpen
    /\ \E f \in DOMAIN form_data : \E text \in FieldTexts(f) :
          form_data' = [form_data EXCEPT ![f] = text]
    /\ pc' = "form"
    /\ KeepResults

\* predict_performance, the Predict button
PredictPerformance ==
    /\ pc \in FormOpen
    /\ UNCHANGED <<model, label_encoders, feature_names, form_data, status>>
    /\ uploaded' = EmptyTable /\ processed' = EmptyTable
    /\ prediction_text' = ""
    /\ NoBatch
    /\ \E data \in {get_form_data(form_data)} :
         IF validate_form(FormFields, data) # <<>>
         THEN /\ Finished("Validation Error")
              /\ pc' = "invalid"
              /\ df' = EmptyTable
              /\ predictions' = <<>> /\ confidences' = <<>>
              /\ student_data' = <<>> /\ recommendations' = <<>>
         ELSE /\ df' = Table(FormFields, <<data>>)
              /\ \E raises \in BOOLEAN, prediction \in {0, 1}, confidence \in RecConfidences :
                   IF raises
                   THEN /\ Caught("Exception", "predict_single", "Prediction Error")
                        /\ pc' = "prediction_error"
                        /\ predictions' = <<>> /\ confidences' = <<>>
                        /\ student_data' = <<>> /\ recommendations' = <<>>
                   ELSE /\ Finished("Prediction Results")
                        /\ pc' = "rec"
                        /\ predictions' = <<prediction>> /\ confidences' = <<confidence>>
                        /\ student_data' = data
                        /\ recommendations' =
                              PredictionWindow_get_recommendations(prediction, data)

NextForm == ClearForm \/ LoadSampleData \/ EditField \/ PredictPerformance \/ SaveResults

SpecForm == InitForm /\ [][NextForm]_vars

(***************************************************************************)
(* Properties of the pipeline (specification Spec)                         *)
(***************************************************************************)
\* the last handler called preprocess_data and the call returned
PreprocessReturned ==
    pc \in {"single", "batch"} /\ failed_at \notin {"read_csv", "preprocess_data"}

\* the last handler's predict_single or predict_batch returned
PredictReturned ==
    pc \in {"single", "batch"} /\ failed_at \notin {"read_csv", "preprocess_data", "predict"}

\* C1: whatever the input table's columns and rows, the table preprocess_data
\* returns has exactly the columns of feature_names, in that order, one row per
\* input row.
C1_ColumnsAreFeatureNames ==
    PreprocessReturned =>
        /\ processed.cols = feature_names[1]
        /\ Len(processed.rows) = Len(uploaded.rows)
        /\ \A j \in DOMAIN processed.rows :
               DOMAIN processed.rows[j] = Range(feature_names[1])

\* C1 witness: a returned table for an input with an extra column, a missing
\* feature and another column order
C1_Witness ==
    /\ PreprocessReturned /\ pc = "batch"
    /\ Len(uploaded.rows) = 2
    /\ uploaded.cols = <<"Confidence", "studytime", "sex">>

\* C2: a feature that is no column of the input holds 0 in every preprocessed row.
C2_MissingFeatureIsZero ==
    PreprocessReturned =>
        \A j \in DOMAIN processed.rows :
            \A f \in Range(feature_names[1]) :
                f \notin Cols(uploaded) => processed.rows[j][f] = IntV(0)

\* C2 witness: a returned row for an input that lacks two of the features
C2_Witness ==
    /\ PreprocessReturned
    /\ Len(processed.rows) >= 1
    /\ "sex" \notin Cols(uploaded) /\ "famsup" \notin Cols(uploaded)
    /\ "studytime" \in Cols(uploaded)

\* C3: with encoders and feature list loaded preprocess_data does not raise, and
\* a value of an encoded column whose string form is not among the encoder's
\* classes_ is encoded as the code of classes_[0], which is 0.
C3_UnseenCategoryFallsBack ==
    (pc \in {"single", "batch"} /\ failed_at # "read_csv"
        /\ label_encoders # None /\ feature_names # None) =>
        /\ PreprocessReturned
        /\ \A j \in DOMAIN uploaded.rows :
             \A c \in Cols(uploaded) \cap DOMAIN label_encoders[1] \cap Cols(processed) :
                ToStr(uploaded.rows[j][c]) \notin Range(label_encoders[1][c])
                    => processed.rows[j][c] = IntV(0)

\* C3 witness: a returned table for an input holding the unseen category "other"
C3_Witness ==
    /\ PreprocessReturned
    /\ \E j \in DOMAIN uploaded.rows :
          /\ "sex" \in Cols(uploaded)
          /\ uploaded.rows[j]["sex"] = StrV("other")
          /\ processed.rows[j]["sex"] = IntV(0)

\* the table holding row j of t alone
RowAlone(t, j) == Table(t.cols, <<t.rows[j]>>)

\* C4: when predict_batch returns, it returns one (class, confidence) per input
\* row, and entry j is what predict_single returns for row j alone.
C4_BatchEqualsSingle ==
    (pc = "batch" /\ PredictReturned) =>
        /\ Len(predictions) = Len(uploaded.rows)
        /\ Len(confidences) = Len(uploaded.rows)
        /\ \A j \in DOMAIN uploaded.rows :
             \E one \in {predict_single(model[1], label_encoders, feature_names,
                                        RowAlone(uploaded, j))} :
                /\ one.err = ""
                /\ one.predictions = <<predictions[j]>>
                /\ one.confidences = <<confidences[j]>>

\* C4 witness: a batch of two rows with different results
C4_Witness ==
    /\ pc = "batch" /\ PredictReturned
    /\ Len(predictions) = 2
    /\ predictions[1] # predictions[2]
    /\ confidences[1] # confidences[2]

\* C5: every confidence returned by predict_single and predict_batch is the
\* maximum entry of the classifier's probability row for that input row, and
\* lies in [0, 1] (0..100 percent).
C5_ConfidenceIsMaxProba ==
    PredictReturned =>
        \A j \in DOMAIN confidences :
            \E p \in {ModelPredictProba(model[1], processed)[j]} :
                /\ confidences[j] \in Range(p)
                /\ \A y \in Range(p) : y <= confidences[j]
                /\ confidences[j] >= 0 /\ confidences[j] <= 100

\* C5 witness: a confidence that is the probability of the first class, not of the last
C5_Witness ==
    /\ PredictReturned
    /\ \E j \in DOMAIN confidences :
          /\ confidences[j] = 72
          /\ ModelPredictProba(model[1], processed)[j] = <<72, 28>>

(***************************************************************************)
(* Properties of the batch aggregation (specifications SpecBatch and Spec) *)
(***************************************************************************)
\* the last step computed the summary counts and rates
MetricsComputed ==
    \/ pc \in {"header", "summary", "insights", "risk"}
    \/ pc = "report" /\ error = ""
    \/ pc = "batch" /\ failed_at \in {"", "display"}

\* the last step computed the three tiers
TiersComputed ==
    \/ pc = "risk"
    \/ pc = "report" /\ error = ""
    \/ pc = "batch" /\ failed_at \in {"", "display"}

\* C6: every row of class 0 is in exactly one of High risk (confidence > 0.7) and
\* Medium risk (confidence <= 0.7), a class-0 row at exactly 0.7 is Medium, and
\* no row of class 1 is in either tier.
C6_RiskTiersPartition ==
    TiersComputed =>
        \A j \in DOMAIN predictions :
            /\ predictions[j] = 0 => ((j \in high_risk) # (j \in medium_risk))
            /\ j \in high_risk <=> (predictions[j] = 0 /\ confidences[j] > 70)
            /\ j \in medium_risk <=> (predictions[j] = 0 /\ confidences[j] <= 70)
            /\ predictions[j] = 1 => (j \notin high_risk /\ j \notin medium_risk)

\* C6 witness: a batch with a class-0 row at 0.7 in Medium, a class-0 row at 0.72
\* in High
C6_Witness ==
    /\ pc = "risk"
    /\ \E j \in medium_risk : confidences[j] = 70
    /\ \E j \in high_risk : confidences[j] = 72

\* C7 as stated: some row is in Low-confidence and High risk at once, and some
\* row is in Low-confidence and Medium risk at once.
\* Where the tiers are computed, their row tests admit both overlaps.
C7_LowConfidenceOverlapsBothTiers ==
    TiersComputed =>
        /\ \E p \in {0, 1}, c \in 0..100 : LowConfidenceRow(c) /\ HighRiskRow(p, c)
        /\ \E p \in {0, 1}, c \in 0..100 : LowConfidenceRow(c) /\ MediumRiskRow(p, c)

\* C7 amended: the Low-confidence tier holds the rows of confidence < 0.6 of
\* either class; its class-0 rows are all in Medium risk, and no row is in
\* Low-confidence and High risk at once.
C7_LowConfidenceOverlapsMediumOnly ==
    TiersComputed =>
        /\ low_confidence \cap high_risk = {}
        /\ \A j \in DOMAIN predictions :
              /\ j \in low_confidence <=> confidences[j] < 60
              /\ (j \in low_confidence /\ predictions[j] = 0) => j \in medium_risk

\* C7 witness: a batch with a row in Low-confidence and Medium risk, and a
\* Low-confidence row of class 1
C7_Witness ==
    /\ pc = "risk"
    /\ low_confidence \cap medium_risk # {}
    /\ \E j \in low_confidence : predictions[j] = 1

\* C8: for a non-empty batch of classes in {0, 1} the good-performance count is
\* the number of class-1 rows, the needs-support count the number of class-0
\* rows, they sum to the number of rows, the two rates are these counts over
\* the number of rows and sum to 1; 6 of 10 gives 0.6 and 0.4.
C8_CountsAndRates ==
    MetricsComputed =>
        /\ good_performance = Cardinality({j \in DOMAIN predictions : predictions[j] = 1})
        /\ needs_support = Cardinality({j \in DOMAIN predictions : predictions[j] = 0})
        /\ good_performance + needs_support = Len(predictions)
        /\ rates = <<<<good_performance, Len(predictions)>>,
                     <<needs_support, Len(predictions)>>>>
        /\ rates[1][1] * rates[2][2] + rates[2][1] * rates[1][2] = rates[1][2] * rates[2][2]
        /\ (Len(predictions) = 10
              /\ Cardinality({j \in DOMAIN predictions : predictions[j] = 1}) = 6)
             => (10 * rates[1][1] = 6 * rates[1][2] /\ 10 * rates[2][1] = 4 * rates[2][2])

\* C8 witness: a batch of 10 rows, 6 of class 1
C8_Witness ==
    /\ pc = "header"
    /\ Len(predictions) = 10
    /\ Cardinality({j \in DOMAIN predictions : predictions[j] = 1}) = 6
    /\ rates = <<<<6, 10>>, <<4, 10>>>>

\* C9: a batch of size 0, read by a loaded handler, ends without a division error
\* and with an explicit no-data message.
C9_EmptyBatchReportsNoData ==
    (pc = "batch" /\ failed_at # "read_csv" /\ Len(uploaded.rows) = 0
        /\ label_encoders # None /\ feature_names # None) =>
        (error # "ZeroDivisionError" /\ message = "No data")

(***************************************************************************)
(* Properties of get_recommendations (specification SpecRec)               *)
(***************************************************************************)
RecNum(d, key) == IF key \in DOMAIN d THEN d[key].i ELSE 0
RecTxt(d, key) == IF key \in DOMAIN d THEN d[key].s ELSE ""

\* the recommendations of the rules whose condition holds for (p, d)
RulesFired(p, d) ==
    {r \in {RecStudy, RecTutoring, RecAttendance, RecSchoolSup, RecFamily,
            RecContinue, RecLeadership, RecHigher, RecBalance} :
        \/ r = RecStudy /\ p = 0 /\ RecNum(d, "studytime") < 3
        \/ r = RecTutoring /\ p = 0 /\ RecNum(d, "failures") > 0
        \/ r = RecAttendance /\ p = 0 /\ RecNum(d, "absences") > 10
        \/ r = RecSchoolSup /\ p = 0 /\ RecTxt(d, "schoolsup") = "no"
        \/ r = RecFamily /\ p = 0 /\ RecTxt(d, "famsup") = "no"
        \/ r \in {RecContinue, RecLeadership, RecBalance} /\ p # 0
        \/ r = RecHigher /\ p # 0 /\ RecTxt(d, "higher") = "yes"}

\* C10: the list holds the recommendation of every rule whose condition holds,
\* holds the generic fallback exactly when no rule fired, and is never empty.
C10_AllRulesFire ==
    pc = "rec" =>
        /\ RulesFired(predictions[1], student_data) \subseteq Range(recommendations)
        /\ RecFallback \in Range(recommendations)
              <=> RulesFired(predictions[1], student_data) = {}
        /\ RulesFired(predictions[1], student_data) = {}
              => recommendations = <<RecFallback>>
        /\ recommendations # <<>>

\* the sample row of the prediction form, cut to the keys the class-0 rules read
SampleRow ==
    [studytime |-> IntV(2), failures |-> IntV(0), absences |-> IntV(6),
     schoolsup |-> StrV("yes"), famsup |-> StrV("no")]

\* C11: for the sample row predicted class 0 at confidence 0.72, the row passes
\* the High-risk test and not the Medium-risk one, and get_recommendations
\* returns the study-time and the family-involvement recommendations and none
\* of the tutoring, attendance and school-support ones.
C11_SampleRowHighRisk ==
    (pc = "rec" /\ predictions = <<0>> /\ confidences = <<72>>
        /\ student_data = SampleRow) =>
        /\ HighRiskRow(predictions[1], confidences[1])
        /\ ~MediumRiskRow(predictions[1], confidences[1])
        /\ RecStudy \in Range(recommendations)
        /\ RecFamily \in Range(recommendations)
        /\ Range(recommendations) \cap {RecTutoring, RecAttendance, RecSchoolSup} = {}

\* C11 witness: get_recommendations has returned for the sample row at class 0, 0.72
C11_Witness ==
    /\ pc = "rec" /\ predictions = <<0>> /\ confidences = <<72>>
    /\ student_data = SampleRow
    /\ recommendations = <<RecStudy, RecFamily>>

\* C10 witness: three rules of class 0 fire on one call
C10_Witness ==
    /\ pc = "rec"
    /\ predictions = <<0>>
    /\ {RecStudy, RecTutoring, RecFamily} \subseteq Range(recommendations)

C13_MissingArtifactsRaiseLoadError ==
    (pc \in {"single", "batch"} /\ failed_at # "read_csv"
        /\ (label_encoders = None \/ feature_names = None)) =>
        /\ error = "LoadError"
        /\ failed_at = "preprocess_data"
        /\ processed = EmptyTable /\ predictions = <<>>

\* C14: a prediction call in which the classifier raises ends with a
\* PredictionError, and hands back no prediction and no confidence for any row.
C14_ClassifierFailureIsPredictionError ==
    (pc \in {"single", "batch"} /\ failed_at = "predict") =>
        /\ error = "PredictionError"
        /\ predictions = <<>> /\ confidences = <<>>

\* C15: once the handler is constructed, no step (a call of predict_single or
\* predict_batch, with the preprocess_data inside it, or a rerun of the script)
\* changes model, label_encoders or feature_names.
C15_CallsLeaveHandlerUnchanged ==
    [][pc # "init" => /\ model' = model
                      /\ label_encoders' = label_encoders
                      /\ feature_names' = feature_names]_vars

\* C15 witness: a batch call has returned and the handler still holds the three
\* artifacts as loaded
C15_Witness ==
    /\ pc = "batch" /\ PredictReturned
    /\ Len(predictions) >= 1
    /\ model # None
    /\ label_encoders = Some(Encoders)
    /\ feature_names = Some(FeatureNames)

(***************************************************************************)
(* Properties of analyze_risk_factors (specification SpecRisk)             *)
(***************************************************************************)
\* the positions of the High-risk rows of the batch
HighRiskPositions ==
    {j \in DOMAIN df.rows : predictions[j] = 0 /\ confidences[j] > 70}

\* how many High-risk rows have the factor (0 when the batch lacks its column)
FactorCount(text) ==
    Cardinality({j \in HighRiskPositions :
        \/ text = FactorStudy /\ df.rows[j]["studytime"].i <= 2
        \/ text = FactorAbsences /\ "absences" \in Cols(df) /\ df.rows[j]["absences"].i > 10
        \/ text = FactorFailures /\ "failures" \in Cols(df) /\ df.rows[j]["failures"].i > 0
        \/ text = FactorFamily /\ "famsup" \in Cols(df) /\ df.rows[j]["famsup"].s = "no"
        \/ text = FactorSchool /\ "schoolsup" \in Cols(df) /\ df.rows[j]["schoolsup"].s = "no"})

\* the share of the factor, in percent
FactorShare(text) ==
    CASE text \in {FactorStudy, FactorSchool} -> 60
      [] text \in {FactorAbsences, FactorFamily} -> 40
      [] OTHER -> 50

\* C16: with High-risk rows in the batch, the list reports a factor, with its
\* count among the High-risk rows and their total, exactly when 100 * count is
\* strictly above share * total (60 study time and school support, 40 absences
\* and family support, 50 failures); a count equal to the share is not reported.
C16_FactorReportedAboveShare ==
    (pc = "risk" /\ HighRiskPositions # {}) =>
        \A text \in {FactorStudy, FactorAbsences, FactorFailures, FactorFamily, FactorSchool} :
            /\ (\E k \in DOMAIN risk_factors : risk_factors[k].text = text)
                  <=> (100 * FactorCount(text)
                         > FactorShare(text) * Cardinality(HighRiskPositions))
            /\ \A k \in DOMAIN risk_factors :
                  risk_factors[k].text = text =>
                     /\ risk_factors[k].count = FactorCount(text)
                     /\ risk_factors[k].total = Cardinality(HighRiskPositions)

\* C16 witness: 5 High-risk rows, 3 of them with every factor: study time and
\* school support sit at their 60% share and are not reported, the others are
C16_Witness ==
    /\ pc = "risk"
    /\ Cardinality(HighRiskPositions) = 5
    /\ FactorCount(FactorStudy) = 3
    /\ [k \in DOMAIN risk_factors |-> risk_factors[k].text]
          = <<FactorAbsences, FactorFailures, FactorFamily>>

(***************************************************************************)
(* Properties of the pipeline on tables with extra columns (Spec)          *)
(***************************************************************************)
\* the table t cut to its columns named in feature_names, in t's order
FeatureColumnsOnly(t) ==
    LET cols == SelectSeq(t.cols, LAMBDA c : c \in Range(feature_names[1]))
    IN Table(cols, [j \in DOMAIN t.rows |-> [c \in Range(cols) |-> t.rows[j][c]]])

\* C17: the batch call on a table and the call on the same table without its
\* columns outside feature_names end alike, with the same processed table, the same
\* classes and the same confidences; so does the call on the table the page
\* holds after it added Predicted_Performance, Confidence and Performance_Label.
C17_ExtraColumnsIgnored ==
    (pc = "batch" /\ failed_at # "read_csv" /\ feature_names # None) =>
        \A t \in {FeatureColumnsOnly(uploaded), df} :
            \E other \in {predict_batch(model[1], label_encoders, feature_names, t)} :
                /\ (other.err = "") <=> PredictReturned
                /\ other.processed = processed
                /\ other.predictions = predictions
                /\ other.confidences = confidences

\* C17 witness: a returned batch of two rows whose file had a Confidence column
\* before its feature columns, and now has the three added columns too
C17_Witness ==
    /\ pc = "batch" /\ PredictReturned
    /\ Len(predictions) = 2
    /\ uploaded.cols = <<"famsup", "Confidence", "studytime", "sex">>
    /\ "Performance_Label" \in Cols(df)

(***************************************************************************)
(* Properties of the batch entry points (specification SpecApp)            *)
(***************************************************************************)
\* the messages the entry points show for an error
ErrorMessages == {"Error processing file", "Failed to process data",
                  "Failed to process CSV file"}

\* C18: an error met while a batch file is read, preprocessed or predicted, on
\* the web page or in the desktop window, ends the entry point in one of its
\* handlers with a user-facing message; so does the error the desktop window
\* meets when it builds its widgets after such a failure.
C18_LoadErrorsAreSurfaced ==
    (pc \in {"batch", "destroyed", "failed", "crashed"} /\ error # "") =>
        /\ pc # "crashed"
        /\ message \in ErrorMessages
        /\ predictions = <<>> \/ failed_at \notin {"read_csv", "preprocess_data",
                                                   "predict", "predict_batch"}

\* C18 witness: the desktop load failed, the window was destroyed, and the
\* error of building its widgets was caught by the main window
C18_Witness ==
    /\ pc = "failed"
    /\ failed_at = "create_widgets"
    /\ error = "TclError"
    /\ message = "Failed to process CSV file"

(***************************************************************************)
(* Properties of the summary statistics (specification SpecBatch)          *)
(***************************************************************************)
\* C19: for a loaded, non-empty batch that lacks one of age, studytime and
\* absences, create_summary_section still ends with the summary computed and
\* no error.
C19_AbsentAttributeSkipped ==
    (pc \in {"summary", "failed"} /\ failed_at \notin {"create_widgets", "create_header"}
        /\ ~(MeanCols \subseteq Cols(df))) =>
        /\ pc = "summary"
        /\ error = ""
        /\ rates # NoRates

(***************************************************************************)
(* Properties of the labels (specification SpecApp)                        *)
(***************************************************************************)
\* the rows of the batch table that carry the label: the filter of the data tab
\* and of the export
RowsLabelled(label) ==
    {j \in DOMAIN df.rows : df.rows[j]["Performance_Label"].s = label}

\* C20: in a batch table with its predictions added, a row is labelled
\* 'Good Performance' exactly when its class is 1 and 'Needs Support' exactly
\* when it is 0, so the two sets of rows are disjoint and are all rows; the
\* label save_results writes for a single prediction follows the same rule.
C20_LabelMatchesClass ==
    /\ "Performance_Label" \in Cols(df) =>
          /\ Len(predictions) = Len(df.rows)
          /\ \A j \in DOMAIN df.rows :
                /\ j \in RowsLabelled("Good Performance")
                      <=> (predictions[j] = 1 /\ RowClass(df, j) = 1)
                /\ j \in RowsLabelled("Needs Support")
                      <=> (predictions[j] = 0 /\ RowClass(df, j) = 0)
          /\ RowsLabelled("Good Performance") \cap RowsLabelled("Needs Support") = {}
          /\ RowsLabelled("Good Performance") \cup RowsLabelled("Needs Support")
                = DOMAIN df.rows
    /\ pc = "saved" =>
          /\ prediction_text = "Good Performance" <=> predictions[1] = 1
          /\ prediction_text = "Needs Support" <=> predictions[1] = 0

\* C20 witness: a web batch with a row of each label
C20_Witness ==
    /\ pc = "batch"
    /\ "Performance_Label" \in Cols(df)
    /\ RowsLabelled("Good Performance") # {}
    /\ RowsLabelled("Needs Support") # {}

(***************************************************************************)
(* Properties of the encoding of known categories (specification Spec)     *)
(***************************************************************************)
\* the code of a known category: its position in classes_, counted from 0
CodeOf(classes, y) == (CHOOSE k \in DOMAIN classes : classes[k] = y) - 1

\* C21: when preprocess_data returns, every value of an encoded feature column
\* whose string form is one of the encoder's classes_ is encoded as the code of
\* that very category; only values outside classes_ take the fallback code.
C21_KnownCategoryKeepsOwnCode ==
    PreprocessReturned =>
        \A j \in DOMAIN uploaded.rows :
            \A c \in Cols(uploaded) \cap DOMAIN label_encoders[1] \cap Cols(processed) :
                ToStr(uploaded.rows[j][c]) \in Range(label_encoders[1][c])
                    => processed.rows[j][c]
                         = IntV(CodeOf(label_encoders[1][c], ToStr(uploaded.rows[j][c])))

\* C21 witness: a returned batch with the known category "M" (code 1) next to
\* a row of the unseen category
C21_Witness ==
    /\ pc = "batch" /\ PreprocessReturned
    /\ Len(uploaded.rows) = 2
    /\ "sex" \in Cols(uploaded)
    /\ uploaded.rows[1]["sex"] = StrV("other")
    /\ uploaded.rows[2]["sex"] = StrV("M")
    /\ processed.rows[2]["sex"] = IntV(1)

(***************************************************************************)
(* Properties of load_models (specification Spec)                          *)
(***************************************************************************)
\* C22: in every state of the handler, a loaded model comes with loaded
\* encoders and a loaded feature list.
C22_LoadIsAllOrNothing ==
    model # None => (label_encoders # None /\ feature_names # None)

(***************************************************************************)
(* Properties of the caller's table (specification Spec)                   *)
(***************************************************************************)
\* the columns show_batch_analysis itself assigns after predict_batch returned
ResultColumns == {"Predicted_Performance", "Confidence", "Performance_Label"}

\* C23: after preprocess_data the caller's table has the columns and the
\* un-encoded values it was read with, so later tests on raw attributes see
\* the original values (the columns the caller assigns afterwards aside).
C23_InputTableUnchanged ==
    (pc \in {"single", "batch"} /\ failed_at # "read_csv") =>
        /\ Len(df.rows) = Len(uploaded.rows)
        /\ \A c \in Cols(uploaded) \ ResultColumns :
              /\ c \in Cols(df)
              /\ \A j \in DOMAIN uploaded.rows : df.rows[j][c] = uploaded.rows[j][c]

C23_Witness ==
    /\ pc = "batch" /\ PreprocessReturned /\ error = ""
    /\ Len(uploaded.rows) = 2
    /\ "famsup" \in Cols(uploaded)
    /\ uploaded.rows[1]["famsup"] = StrV("no")
    /\ processed.rows[1]["famsup"] = IntV(0)
    /\ df.rows[1]["famsup"] = StrV("no")
    /\ uploaded.rows[2]["sex"] = StrV("M")
    /\ processed.rows[2]["sex"] = IntV(1)
    /\ df.rows[2]["sex"] = StrV("M")

(***************************************************************************)
(* Properties of a failed load_and_process_data (specification SpecBatch)  *)
(***************************************************************************)
\* C24: once load_and_process_data has failed and destroyed the window,
\* create_widgets is not run and its one error message stays the only one.
C24_FailedLoadStopsConstruction ==
    [][pc = "destroyed" =>
         (failed_at' # "create_widgets" /\ message' = "Failed to process data")]_vars

(***************************************************************************)
(* The desktop main window (src/gui/main_window.py): its five event        *)
(* handlers and the status bar.  A handler starts when the main window is  *)
(* idle.  Seen from upload_csv_file and use_sample_data the construction   *)
(* of the AnalyticsWindow returns or raises; SpecBatch follows it inside.  *)
(***************************************************************************)
InitMain ==
    /\ model = None /\ label_encoders = None /\ feature_names = None
    /\ pc = "idle"
    /\ uploaded = EmptyTable /\ df = EmptyTable /\ processed = EmptyTable
    /\ predictions = <<>> /\ confidences = <<>>
    /\ good_performance = 0 /\ needs_support = 0 /\ rates = NoRates
    /\ high_risk = {} /\ medium_risk = {} /\ low_confidence = {}
    /\ risk_factors = <<>>
    /\ error = "" /\ failed_at = "" /\ message = ""
    /\ student_data = <<>> /\ prediction_text = "" /\ recommendations = <<>>
    /\ form_data = <<>> /\ status = "Ready"

\* what the statements of a main-window handler leave alone
KeepWindows ==
    UNCHANGED <<model, label_encoders, feature_names, uploaded, df, processed, predictions,
                confidences, good_performance, needs_support, rates, high_risk, medium_risk,
                low_confidence, risk_factors, student_data, prediction_text,
                recommendations>>
KeepMessage == UNCHANGED <<error, failed_at, message>>

\* the first statement of a handler: update_status(text)
HandlerStarts(at, text) ==
    /\ pc' = at
    /\ status' = text
    /\ KeepWindows /\ KeepMessage /\ UNCHANGED form_data

\* defect variant of HandlerEnds: the branch returns without update_status
HandlerEndsQuietly(text) ==
    /\ pc' = "idle"
    /\ UNCHANGED status

\* the last statement of a branch of a handler: update_status(text)
HandlerEnds(text) ==
    /\ pc' = "idle"
    /\ status' = text

OpenPredictionWindow ==
    /\ pc = "idle"
    /\ HandlerStarts("opening", "Opening prediction window...")

\* PredictionWindow(...) returns or raises
PredictionWindowOpened ==
    /\ pc = "opening"
    /\ KeepWindows
    /\ \E raises \in BOOLEAN :
         IF raises
         THEN /\ Caught("Exception", "PredictionWindow", "Failed to open prediction window")
              /\ HandlerEnds("Error occurred")
              /\ UNCHANGED form_data
         ELSE /\ form_data' = FormDefaults
              /\ KeepMessage
              /\ HandlerEnds("Ready")

UploadCsvFile ==
    /\ pc = "idle"
    /\ HandlerStarts("selecting", "Selecting CSV file...")

\* askopenfilename returns a path or ''
FileSelected ==
    /\ pc = "selecting"
    /\ KeepWindows /\ KeepMessage /\ UNCHANGED form_data
    /\ \E chosen \in BOOLEAN :
         IF chosen
         THEN pc' = "processing" /\ status' = "Processing CSV file..."
         ELSE HandlerEnds("File selection cancelled")

UseSampleData ==
    /\ pc = "idle"
    /\ HandlerStarts("sample", "Loading sample data...")

\* os.path.exists(sample_file)
SampleChecked ==
    /\ pc = "sample"
    /\ KeepWindows /\ UNCHANGED form_data
    /\ \E exists \in BOOLEAN :
         IF exists
         THEN pc' = "loading_sample" /\ KeepMessage /\ UNCHANGED status
         ELSE /\ Finished("Sample data file not found!")
              /\ HandlerEnds("Sample data not found")

ViewSampleData ==
    /\ pc = "idle"
    /\ HandlerStarts("viewing", "Opening sample data viewer...")

\* show_data_viewer catches its own exceptions and leaves the status alone
SampleViewed ==
    /\ pc = "viewing"
    /\ KeepWindows /\ UNCHANGED form_data
    /\ \E outcome \in {"shown", "viewer_failed", "not_found"} :
         CASE outcome = "shown" -> KeepMessage
           [] outcome = "viewer_failed" ->
                Caught("Exception", "show_data_viewer", "Failed to display data")
           [] OTHER -> Finished("Sample data file not found!")
    /\ HandlerEnds("Ready")

DownloadTemplate ==
    /\ pc = "idle"
    /\ HandlerStarts("saving_template", "Creating template...")

\* asksaveasfilename returns a path or ''; create_template may raise
TemplateSaved ==
    /\ pc = "saving_template"
    /\ KeepWindows /\ UNCHANGED form_data
    /\ \E outcome \in {"saved", "cancelled", "raises"} :
         CASE outcome = "saved" ->
                Finished("Template saved") /\ HandlerEnds("Template downloaded")
           [] outcome = "cancelled" ->
                KeepMessage /\ HandlerEnds("Download cancelled")
           [] OTHER ->
                /\ Caught("Exception", "create_template", "Failed to create template")
                /\ HandlerEnds("Error occurred")

\* AnalyticsWindow(...) in upload_csv_file returns or raises
UploadedFileAnalyzed ==
    /\ pc = "processing"
    /\ KeepWindows /\ UNCHANGED form_data
    /\ \E raises \in BOOLEAN :
         IF raises
         THEN /\ Caught("Exception", "AnalyticsWindow", "Failed to process CSV file")
              /\ HandlerEnds("Error occurred")
         ELSE KeepMessage /\ HandlerEnds("Ready")

\* AnalyticsWindow(...) in use_sample_data returns or raises
SampleDataAnalyzed ==
    /\ pc = "loading_sample"
    /\ KeepWindows /\ UNCHANGED form_data
    /\ \E raises \in BOOLEAN :
         IF raises
         THEN /\ Caught("Exception", "AnalyticsWindow", "Failed to load sample data")
              /\ HandlerEnds("Error occurred")
         ELSE KeepMessage /\ HandlerEnds("Ready")

\* the steps that the running handler takes by itself
HandlerStep == \/ PredictionWindowOpened
               \/ FileSelected
               \/ SampleChecked
               \/ SampleViewed
               \/ TemplateSaved
               \/ UploadedFileAnalyzed
               \/ SampleDataAnalyzed

NextMain == \/ OpenPredictionWindow
            \/ PredictionWindowOpened
            \/ UploadCsvFile
            \/ FileSelected
            \/ UseSampleData
            \/ SampleChecked
            \/ ViewSampleData
            \/ SampleViewed
            \/ DownloadTemplate
            \/ TemplateSaved
            \/ UploadedFileAnalyzed
            \/ SampleDataAnalyzed

\* a handler is one call on the Tk event loop: once started it runs on until
\* it returns, the file dialogs being answered
SpecMain == InitMain /\ [][NextMain]_vars /\ WF_vars(HandlerStep)

(***************************************************************************)
(* Properties of the prediction form (specification SpecForm)              *)
(***************************************************************************)
\* the texts of a field that are a value of its range
InRangeTexts(f) == FieldTexts(f) \ {"x"}

\* C25: a form whose fields all hold in-range values, zeros included, is
\* accepted: Predict ends in a validation error only when some field is empty
\* or out of range.
C25_FilledFormAccepted ==
    pc = "invalid" => \E f \in DOMAIN form_data : form_data[f] \notin InRangeTexts(f)

\* predict_performance went past validate_form and called predict_single
PredictSingleCalled == pc \in {"rec", "prediction_error"}

\* C26: predict_single is called, and a result shown, only for a form that
\* has no empty field; Predict on the cleared form ends in the validation
\* error with no prediction.
C26_PredictOnlyAfterValidation ==
    /\ PredictSingleCalled => \A f \in DOMAIN form_data : form_data[f] # ""
    /\ pc = "rec" => \A f \in DOMAIN student_data : ~Falsy(student_data[f])
    /\ (pc \in {"invalid", "rec", "prediction_error"}
          /\ \A f \in DOMAIN form_data : form_data[f] = "")
         => /\ pc = "invalid"
            /\ message = "Validation Error"
            /\ predictions = <<>> /\ recommendations = <<>>

C26_Witness ==
    /\ pc = "invalid"
    /\ \A f \in DOMAIN form_data : form_data[f] = ""
    /\ message = "Validation Error"
    /\ predictions = <<>>

(***************************************************************************)
(* Properties of the two copies of get_recommendations (SpecRec)           *)
(***************************************************************************)
\* C27: for every class and every student_data the list the web function
\* returned is the list the desktop window's function returns, in the same
\* order.
C27_WebAndDesktopAgree ==
    pc = "rec" =>
        recommendations = PredictionWindow_get_recommendations(predictions[1], student_data)

C27_Witness ==
    /\ pc = "rec" /\ predictions = <<0>>
    /\ DOMAIN student_data = Range(RecKeys)
    /\ student_data["absences"] = IntV(10)
    /\ student_data["famsup"] = StrV("no")
    /\ student_data["studytime"] = IntV(2)
    /\ recommendations = <<RecStudy, RecFamily>>
    /\ recommendations = PredictionWindow_get_recommendations(0, student_data)

(***************************************************************************)
(* Properties of the placeholders of analyze_risk_factors (SpecFactors)    *)
(***************************************************************************)
FactorTexts == {FactorStudy, FactorAbsences, FactorFailures, FactorFamily, FactorSchool}

\* C28: analyze_risk_factors never returns an empty list: on an empty
\* High-risk set the list is the one entry "No high-risk students identified",
\* on a non-empty set with no factor above its share the one entry "No clear
\* common risk factors ...", and a placeholder is never next to a factor.
C28_NeverEmptyList ==
    pc = "factors" =>
        /\ Len(risk_factors) >= 1
        /\ HighRiskPositions = {} => risk_factors = <<Factor(FactorNoHighRisk, 0, 0)>>
        /\ (/\ HighRiskPositions # {}
            /\ \A text \in FactorTexts :
                  100 * FactorCount(text) <= FactorShare(text) * Cardinality(HighRiskPositions))
             => risk_factors = <<Factor(FactorNone, 0, 0)>>
        /\ (\E k \in DOMAIN risk_factors :
                risk_factors[k].text \in {FactorNone, FactorNoHighRisk})
             => Len(risk_factors) = 1

C28_Witness ==
    /\ pc = "factors"
    /\ Cardinality(HighRiskPositions) = 5
    /\ FactorCount(FactorAbsences) = 2
    /\ FactorCount(FactorFamily) = 2
    /\ risk_factors = <<Factor(FactorNone, 0, 0)>>

(***************************************************************************)
(* Properties of the status bar (specification SpecMain)                   *)
(***************************************************************************)
FinalStatuses == {"Ready", "File selection cancelled", "Sample data not found",
                  "Template downloaded", "Download cancelled", "Error occurred"}

\* no main-window handler is on the stack
HandlerDone == pc = "idle"

\* C29: whenever a main-window handler has ended the status bar shows a
\* final message, and an in-progress status is always followed by a final one.
C29_HandlersEndOnFinalStatus ==
    /\ [](HandlerDone => status \in FinalStatuses)
    /\ (status \notin FinalStatuses) ~> (status \in FinalStatuses)

C29_Witness ==
    /\ pc = "idle" /\ failed_at = "AnalyticsWindow"
    /\ message = "Failed to process CSV file"
    /\ status = "Error occurred"

(***************************************************************************)
(* Properties of the two rule groups of get_recommendations (SpecRec)      *)
(***************************************************************************)
GoodRecs == {RecContinue, RecLeadership, RecHigher, RecBalance}

\* C30: for class 1 the list is the three fixed good-performance entries in
\* order, the higher-education entry third exactly when higher is "yes", and
\* nothing else; for class 0 the list has no good-performance entry.
C30_RuleGroupsApart ==
    pc = "rec" =>
        /\ predictions[1] = 1 =>
              recommendations =
                 IF RecTxt(student_data, "higher") = "yes"
                 THEN <<RecContinue, RecLeadership, RecHigher, RecBalance>>
                 ELSE <<RecContinue, RecLeadership, RecBalance>>
        /\ predictions[1] = 0 => Range(recommendations) \cap GoodRecs = {}

C30_Witness ==
    /\ pc = "rec" /\ predictions = <<1>>
    /\ DOMAIN student_data = Range(RecKeys)
    /\ student_data["higher"] = StrV("yes")
    /\ student_data["studytime"] = IntV(2)
    /\ student_data["famsup"] = StrV("no")
    /\ recommendations = <<RecContinue, RecLeadership, RecHigher, RecBalance>>

====
